---- MODULE Spec2Model ----
(***************************************************************************)
(* Trace-context correlation of rmcp-demo: the process-wide registry       *)
(* (src/src/trace_store.rs), the tower middleware that extracts a context  *)
(* from the request and writes it back under the response's session id     *)
(* (src/src/tracing_middleware.rs) and the #[trace_io] wrapper around a    *)
(* tool handler (src/rmcp-trace-macro/src/lib.rs).                         *)
(*                                                                         *)
(* Tasks are the tokio tasks of the server.  Each runs one call after the  *)
(* other: a request through the middleware, or a direct call of the        *)
(* registry's get_trace_context / clear_trace_context.  A step of the      *)
(* model is the code between two await points; the two RwLocks are state,  *)
(* so every interleaving of lock acquisitions is explored.  Two tasks make *)
(* every race between two calls; MaxCalls bounds the length of a run.      *)
(*                                                                         *)
(* Spec is the bounded system, for the safety properties.  SpecLive is the *)
(* system that serves calls without end, under the fairness of the tokio   *)
(* runtime and of its RwLock, for the liveness property.                   *)
(* SpecCancel is the bounded system in which the future of a request can   *)
(* be dropped at an await point.                                           *)
(***************************************************************************)
EXTENDS Integers, Sequences, FiniteSets, TLC

VARIABLES
    TRACE_STORE,    \* HashMap<String, Context> as a set of <<key, value>> entries
    CURRENT_TRACE,  \* Option<Context>, the fallback slot
    store_lock,     \* RwLock around TRACE_STORE: [w |-> writer or None, r |-> readers]
    current_lock,   \* RwLock around CURRENT_TRACE
    pc,             \* where each task stands
    req,            \* locals of TracePropagationMiddleware::call, and what it observed
    tool,           \* locals and span of the wrapped tool handler
    api,            \* locals of a direct get_trace_context / clear_trace_context
    hist,           \* history of completed calls (observation only)
    calls           \* number of calls started so far

vars == <<TRACE_STORE, CURRENT_TRACE, store_lock, current_lock, pc, req, tool, api, hist, calls>>

----------------------------------------------------------------------------
(* Bounds *)

MaxCalls == 3

Tasks == {"t1", "t2"}

----------------------------------------------------------------------------
(* Values *)

None == "None"
Empty == "Empty"

Sessions == {"s1", "s2"}
Traceparents == {"00-a-01", "00-b-01"}
Contexts == {"root", "ctx-a", "ctx-b"}
\* Argument values of a tool call; the second stands for a value whose
\* Serialize implementation fails (a map with keys that are not strings).
ArgValues == {"London", "unserializable"}

\* A header value is bytes; to_str succeeds only when every byte is visible ASCII.
HeaderValue(s, visible) == [present |-> TRUE, bytes |-> s, visible |-> visible]
NoHeader == [present |-> FALSE, bytes |-> "", visible |-> FALSE]

\* The tool results a handler body can produce: Ok(CallToolResult) with a
\* content vector, or Err(McpError).
OkResult(content) == [ok |-> TRUE, content |-> content, error |-> None]
ErrResult(e) == [ok |-> FALSE, content |-> <<>>, error |-> e]
NoResult == [ok |-> FALSE, content |-> <<>>, error |-> None]
Results ==
    { OkResult(<<[text |-> "{weather}"]>>),
      OkResult(<<[text |-> None]>>),
      OkResult(<<>>),
      ErrResult("McpError") }

\* What the inner service hands back: Err(e), or a response with or without
\* an mcp-session-id header.  The session layer echoes the request's session.
Response(ok, error, h) == [ok |-> ok, error |-> error, session_header |-> h]
NoResponse == Response(FALSE, None, NoHeader)
Responses(s) ==
    { Response(FALSE, "BoxError", NoHeader),
      Response(TRUE, None, NoHeader),
      Response(TRUE, None, HeaderValue(s, TRUE)),
      Response(TRUE, None, HeaderValue(s, FALSE)) }

----------------------------------------------------------------------------
(* Pure functions *)

\* TraceContextPropagator::extract over the request headers: the remote
\* context of a traceparent header, the root context without one.
Extract(traceparent) ==
    CASE traceparent = "00-a-01" -> "ctx-a"
      [] traceparent = "00-b-01" -> "ctx-b"
      [] OTHER -> "root"

\* Faulty variant: bytes that are not visible ASCII are taken as they are.
ToStr_Lossy(h) == h.bytes

\* HeaderValue::to_str
ToStr(h) == IF h.visible THEN h.bytes ELSE None

\* The session id the middleware finds on a response, or None.
SessionStr(response) ==
    IF response.session_header.present THEN ToStr(response.session_header) ELSE None

\* Faulty variants of insert: one keeps an existing entry (entry().or_insert),
\* one adds without replacing, one replaces the whole map.
Insert_Keep(store, k, v) ==
    IF \E e \in store : e[1] = k THEN store ELSE store \cup {<<k, v>>}
Insert_Push(store, k, v) == store \cup {<<k, v>>}
Insert_Only(store, k, v) == {<<k, v>>}

\* HashMap::insert
Insert(store, k, v) == {e \in store : e[1] # k} \cup {<<k, v>>}

\* Faulty variant of get: a miss falls back to some other entry.
Get_OrAny(store, k) ==
    IF \E e \in store : e[1] = k
    THEN (CHOOSE e \in store : e[1] = k)[2]
    ELSE IF store # {} THEN (CHOOSE e \in store : TRUE)[2] ELSE None

\* HashMap::get(..).cloned()
Get(store, k) ==
    IF \E e \in store : e[1] = k
    THEN (CHOOSE e \in store : e[1] = k)[2]
    ELSE None

\* Faulty variant of remove: the whole map is cleared.
Remove_All(store, k) == {}

\* HashMap::remove
Remove(store, k) == {e \in store : e[1] # k}

\* Faulty variant of the read guard: a reader does not wait for the writer.
CanRead_Always(l) == TRUE

\* tokio::sync::RwLock: many readers or one writer
CanRead(l) == l.w = None
CanWrite(l) == l.w = None /\ l.r = {}
Unlocked == [w |-> None, r |-> {}]

\* serde_json::to_value(&args) succeeds; json!(&args) unwraps it.
Serializes(a) == a # "unserializable"

\* serde_json::json!(&args).to_string()
ToJson(a) == "json:" \o a

\* The parent trace_io leaves on the span: the stored context when there is one.
\* Faulty variant: a parent is set even when nothing is stored.
SetParent_Always(parent, stored_context) ==
    IF stored_context # None THEN stored_context ELSE "root"

SetParent(parent, stored_context) ==
    IF stored_context # None THEN stored_context ELSE parent

\* Faulty variant: a failure is recorded as output too.
RecordOutput_Always(output, result) ==
    IF result.ok
    THEN IF Len(result.content) > 0 /\ result.content[1].text # None
         THEN result.content[1].text ELSE output
    ELSE result.error

\* The output attribute trace_io records: the text of the first content item
\* of a successful result.
RecordOutput(output, result) ==
    IF result.ok /\ Len(result.content) > 0 /\ result.content[1].text # None
    THEN result.content[1].text
    ELSE output

\* Faulty variant: the call fails when no context was stored.
WrappedResult_NeedsContext(result, stored_context) ==
    IF stored_context = None THEN ErrResult("no trace context") ELSE result

\* The value trace_io returns.
WrappedResult(result, stored_context) == result

\* Faulty variant: an error of the inner service is swallowed.
CallResult_Swallow(response) ==
    IF response.ok THEN response ELSE Response(TRUE, None, NoHeader)

\* What the middleware's future resolves with: `?` hands an error of the inner
\* service on, Ok(response) the response it received.
CallResult(response) ==
    IF response.ok THEN response ELSE Response(FALSE, response.error, NoHeader)

\* Faulty variant: the slot is written only while it is empty.
Overwrite_IfEmpty(current, context) == IF current = None THEN context ELSE current

\* Faulty variant: the root context is stored as no context.
Overwrite_RootAsNone(current, context) == IF context = "root" THEN None ELSE context

\* *current = Some(context)
Overwrite(current, context) == context

----------------------------------------------------------------------------
(* Initial state *)

NoReq == [traceparent |-> None, session |-> None, parent_context |-> None,
          span_parent |-> None, response |-> NoResponse, ret |-> NoResponse,
          after_entry |-> FALSE, overtaken |-> FALSE]
NoTool == [stored_context |-> None, parent |-> None, input |-> Empty,
           output |-> Empty, args |-> None, result |-> NoResult, ret |-> NoResult]
NoApi == [session_id |-> None, ret |-> None]
\* lastPut: the context of the last store_trace_context that returned.
\* done[s]: the context of the last store_trace_context(s, _) that returned
\* since the last clear_trace_context(s).
\* lastInsert, lastKey: the context and the session of the last insert into
\* TRACE_STORE; lastKey is None once that session has been removed.
NoHist == [lastPut |-> None, done |-> [s \in Sessions |-> None],
           lastInsert |-> None, lastKey |-> None]

Init ==
    /\ TRACE_STORE = {}
    /\ CURRENT_TRACE = None
    /\ store_lock = Unlocked
    /\ current_lock = Unlocked
    /\ pc = [t \in Tasks |-> "idle"]
    /\ req = [t \in Tasks |-> NoReq]
    /\ tool = [t \in Tasks |-> NoTool]
    /\ api = [t \in Tasks |-> NoApi]
    /\ hist = NoHist
    /\ calls = 0

\* A task takes its next call once the previous one has returned; the locals
\* of a call end with it.
CanStart(t) == pc[t] = "idle" /\ calls < MaxCalls

----------------------------------------------------------------------------
(* TracePropagationMiddleware::call *)

\* Faulty variant: the write-back starts before the request is forwarded.
call_Eager(t, traceparent, s) ==
    /\ CanStart(t)
    /\ calls' = calls + 1
    /\ req' = [req EXCEPT ![t] = [NoReq EXCEPT
                  !.traceparent = traceparent,
                  !.session = s,
                  !.parent_context = Extract(traceparent),
                  !.span_parent = Extract(traceparent),
                  !.response = Response(TRUE, None, HeaderValue(s, TRUE))]]
    /\ pc' = [pc EXCEPT ![t] = "put_wait"]
    /\ UNCHANGED <<TRACE_STORE, CURRENT_TRACE, store_lock, current_lock, tool, api, hist>>

\* Lines 47-72: extract the context, set it as the parent of the request's
\* span, forward the request to the inner service.
call(t, traceparent, s) ==
    /\ CanStart(t)
    /\ calls' = calls + 1
    /\ req' = [req EXCEPT ![t] = [NoReq EXCEPT
                  !.traceparent = traceparent,
                  !.session = s,
                  !.parent_context = Extract(traceparent),
                  !.span_parent = Extract(traceparent),
                  !.after_entry = (hist.done[s] \notin {None, "root"})]]
    /\ pc' = [pc EXCEPT ![t] = "inner"]
    /\ UNCHANGED <<TRACE_STORE, CURRENT_TRACE, store_lock, current_lock, tool, api, hist>>

\* Lines 76-80 and 87: the inner service resolves with its response or its
\* error.  `?` returns the error; a response without a usable mcp-session-id
\* header is returned as it is; otherwise the write-back starts.
inner_respond(t, response) ==
    /\ pc[t] \in {"inner", "tool_ret", "tool_panic"}
    /\ response \in Responses(req[t].session)
    /\ tool' = [tool EXCEPT ![t] = NoTool]
    /\ IF response.ok /\ SessionStr(response) # None
       THEN /\ pc' = [pc EXCEPT ![t] = "put_wait"]
            /\ req' = [req EXCEPT ![t].response = response]
       ELSE /\ pc' = [pc EXCEPT ![t] = "returned"]
            /\ req' = [req EXCEPT ![t].response = response,
                                  ![t].ret = CallResult(response),
                                  ![t].after_entry = FALSE]
    /\ UNCHANGED <<TRACE_STORE, CURRENT_TRACE, store_lock, current_lock, api, hist, calls>>

\* The future of call has resolved: the caller takes the outcome.
call_return(t) ==
    /\ pc[t] = "returned"
    /\ req' = [req EXCEPT ![t] = NoReq]
    /\ pc' = [pc EXCEPT ![t] = "idle"]
    /\ UNCHANGED <<TRACE_STORE, CURRENT_TRACE, store_lock, current_lock, tool, api, hist, calls>>

----------------------------------------------------------------------------
(* trace_store::store_trace_context(session_str, parent_context_clone) *)

\* Faulty variant: the guard on TRACE_STORE is dropped right after the insert.
store_write_Drop(t) ==
    /\ pc[t] = "put_wait"
    /\ CanWrite(store_lock)
    /\ TRACE_STORE' = Insert(TRACE_STORE, SessionStr(req[t].response), req[t].parent_context)
    /\ hist' = [hist EXCEPT
                  !.lastInsert = req[t].parent_context,
                  !.lastKey = SessionStr(req[t].response)]
    /\ pc' = [pc EXCEPT ![t] = "put_store"]
    /\ UNCHANGED <<CURRENT_TRACE, store_lock, current_lock, req, tool, api, calls>>

\* Lines 17-19: take the map's write lock, insert the entry.
store_write(t) ==
    /\ pc[t] = "put_wait"
    /\ CanWrite(store_lock)
    /\ store_lock' = [store_lock EXCEPT !.w = t]
    /\ TRACE_STORE' = Insert(TRACE_STORE, SessionStr(req[t].response), req[t].parent_context)
    /\ req' = [u \in Tasks |->
                 IF u # t /\ pc[u] = "put_wait"
                 THEN [req[u] EXCEPT !.overtaken =
                          @ \/ SessionStr(req[u].response) # SessionStr(req[t].response)]
                 ELSE req[u]]
    /\ hist' = [hist EXCEPT
                  !.lastInsert = req[t].parent_context,
                  !.lastKey = SessionStr(req[t].response)]
    /\ pc' = [pc EXCEPT ![t] = "put_store"]
    /\ UNCHANGED <<CURRENT_TRACE, current_lock, tool, api, calls>>

\* Lines 22-23: take the fallback's write lock, overwrite the slot.
current_write(t) ==
    /\ pc[t] = "put_store"
    /\ CanWrite(current_lock)
    /\ current_lock' = [current_lock EXCEPT !.w = t]
    /\ CURRENT_TRACE' = Overwrite(CURRENT_TRACE, req[t].parent_context)
    /\ pc' = [pc EXCEPT ![t] = "put_current"]
    /\ UNCHANGED <<TRACE_STORE, store_lock, req, tool, api, hist, calls>>

\* Faulty variant: the fallback's write guard is not dropped.
store_return_Leak(t) ==
    /\ pc[t] = "put_current"
    /\ store_lock' = [store_lock EXCEPT !.w = None]
    /\ req' = [req EXCEPT ![t].ret = CallResult(req[t].response),
                          ![t].after_entry = FALSE,
                          ![t].overtaken = FALSE]
    /\ hist' = [hist EXCEPT
                  !.lastPut = req[t].parent_context,
                  !.done[SessionStr(req[t].response)] = req[t].parent_context]
    /\ pc' = [pc EXCEPT ![t] = "returned"]
    /\ UNCHANGED <<TRACE_STORE, CURRENT_TRACE, current_lock, tool, api, calls>>

\* Lines 25-26 and the middleware's lines 82-87: both guards are dropped and
\* the response is returned.
store_return(t) ==
    /\ pc[t] = "put_current"
    /\ current_lock' = [current_lock EXCEPT !.w = None]
    /\ store_lock' = [store_lock EXCEPT !.w = None]
    /\ req' = [req EXCEPT ![t].ret = CallResult(req[t].response),
                          ![t].after_entry = FALSE,
                          ![t].overtaken = FALSE]
    /\ hist' = [hist EXCEPT
                  !.lastPut = req[t].parent_context,
                  !.done[SessionStr(req[t].response)] = req[t].parent_context]
    /\ pc' = [pc EXCEPT ![t] = "returned"]
    /\ UNCHANGED <<TRACE_STORE, CURRENT_TRACE, tool, api, calls>>

----------------------------------------------------------------------------
(* trace_io: the wrapper around a tool handler, run by the inner service *)

\* Lines 42-45: the inner service calls the tool handler; the parameters are
\* unpacked and get_current_trace_context() is called.
trace_io(t, a) ==
    /\ pc[t] = "inner"
    /\ tool' = [tool EXCEPT ![t].args = a]
    /\ pc' = [pc EXCEPT ![t] = "tool_wait"]
    /\ UNCHANGED <<TRACE_STORE, CURRENT_TRACE, store_lock, current_lock, req, api, hist, calls>>

\* trace_store.rs 51-52: the fallback's read lock is taken.
get_current_trace_context(t) ==
    /\ pc[t] = "tool_wait"
    /\ CanRead(current_lock)
    /\ current_lock' = [current_lock EXCEPT !.r = @ \cup {t}]
    /\ pc' = [pc EXCEPT ![t] = "tool_ctx"]
    /\ UNCHANGED <<TRACE_STORE, CURRENT_TRACE, store_lock, req, tool, api, hist, calls>>

\* Faulty variant: the input attribute is not recorded before the body runs.
trace_io_input_Skip(t) ==
    /\ pc[t] = "tool_ctx"
    /\ current_lock' = [current_lock EXCEPT !.r = @ \ {t}]
    /\ tool' = [tool EXCEPT
                  ![t].stored_context = CURRENT_TRACE,
                  ![t].parent = SetParent(@, CURRENT_TRACE)]
    /\ pc' = [pc EXCEPT ![t] = "tool_body"]
    /\ UNCHANGED <<TRACE_STORE, CURRENT_TRACE, store_lock, req, api, hist, calls>>

\* Faulty variant: an input that does not serialize is dropped and the body
\* runs all the same.
trace_io_input_Lenient(t) ==
    /\ pc[t] = "tool_ctx"
    /\ current_lock' = [current_lock EXCEPT !.r = @ \ {t}]
    /\ tool' = [tool EXCEPT
                  ![t].stored_context = CURRENT_TRACE,
                  ![t].parent = SetParent(@, CURRENT_TRACE),
                  ![t].input = IF Serializes(tool[t].args) THEN ToJson(tool[t].args) ELSE @]
    /\ pc' = [pc EXCEPT ![t] = "tool_body"]
    /\ UNCHANGED <<TRACE_STORE, CURRENT_TRACE, store_lock, req, api, hist, calls>>

\* trace_store.rs 53-54 and lines 46-57: the slot is cloned and the read
\* guard dropped, the stored context becomes the span's parent, the
\* arguments are turned into JSON (json! unwraps to_value: a failure panics),
\* the input attribute is recorded, the handler body starts.
trace_io_input(t) ==
    /\ pc[t] = "tool_ctx"
    /\ current_lock' = [current_lock EXCEPT !.r = @ \ {t}]
    /\ IF Serializes(tool[t].args)
       THEN /\ tool' = [tool EXCEPT
                          ![t].stored_context = CURRENT_TRACE,
                          ![t].parent = SetParent(@, CURRENT_TRACE),
                          ![t].input = ToJson(tool[t].args)]
            /\ pc' = [pc EXCEPT ![t] = "tool_body"]
       ELSE /\ tool' = [tool EXCEPT
                          ![t].stored_context = CURRENT_TRACE,
                          ![t].parent = SetParent(@, CURRENT_TRACE)]
            /\ pc' = [pc EXCEPT ![t] = "tool_panic"]
    /\ UNCHANGED <<TRACE_STORE, CURRENT_TRACE, store_lock, req, api, hist, calls>>

\* The panic of line 51 unwinds through the caller of the handler: the
\* request ends without an outcome.
trace_io_unwind(t) ==
    /\ pc[t] = "tool_panic"
    /\ tool' = [tool EXCEPT ![t] = NoTool]
    /\ req' = [req EXCEPT ![t] = NoReq]
    /\ pc' = [pc EXCEPT ![t] = "idle"]
    /\ UNCHANGED <<TRACE_STORE, CURRENT_TRACE, store_lock, current_lock, api, hist, calls>>

\* Lines 58-74: the handler body finishes with its result, the output of a
\* successful result is recorded, the result is returned.
trace_io_output(t, result) ==
    /\ pc[t] = "tool_body"
    /\ tool' = [tool EXCEPT
                  ![t].result = result,
                  ![t].output = RecordOutput(@, result),
                  ![t].ret = WrappedResult(result, tool[t].stored_context)]
    /\ pc' = [pc EXCEPT ![t] = "tool_ret"]
    /\ UNCHANGED <<TRACE_STORE, CURRENT_TRACE, store_lock, current_lock, req, api, hist, calls>>

----------------------------------------------------------------------------
(* trace_store::get_trace_context and clear_trace_context *)

\* Line 30: get_trace_context(session_id) is called.
get_trace_context(t, session_id) ==
    /\ CanStart(t)
    /\ calls' = calls + 1
    /\ api' = [api EXCEPT ![t] = [session_id |-> session_id, ret |-> None]]
    /\ pc' = [pc EXCEPT ![t] = "get_wait"]
    /\ UNCHANGED <<TRACE_STORE, CURRENT_TRACE, store_lock, current_lock, req, tool, hist>>

\* Lines 31-32: take the map's read lock, look the session up.
get_read(t) ==
    /\ pc[t] = "get_wait"
    /\ CanRead(store_lock)
    /\ store_lock' = [store_lock EXCEPT !.r = @ \cup {t}]
    /\ api' = [api EXCEPT ![t].ret = Get(TRACE_STORE, api[t].session_id)]
    /\ pc' = [pc EXCEPT ![t] = "get"]
    /\ UNCHANGED <<TRACE_STORE, CURRENT_TRACE, current_lock, req, tool, hist, calls>>

\* Lines 33-39: the read guard is dropped, the context is returned.
get_return(t) ==
    /\ pc[t] = "get"
    /\ store_lock' = [store_lock EXCEPT !.r = @ \ {t}]
    /\ api' = [api EXCEPT ![t] = NoApi]
    /\ pc' = [pc EXCEPT ![t] = "idle"]
    /\ UNCHANGED <<TRACE_STORE, CURRENT_TRACE, current_lock, req, tool, hist, calls>>

\* Line 43: clear_trace_context(session_id) is called.
clear_trace_context(t, session_id) ==
    /\ CanStart(t)
    /\ calls' = calls + 1
    /\ api' = [api EXCEPT ![t] = [session_id |-> session_id, ret |-> None]]
    /\ pc' = [pc EXCEPT ![t] = "clear_wait"]
    /\ UNCHANGED <<TRACE_STORE, CURRENT_TRACE, store_lock, current_lock, req, tool, hist>>

\* Faulty variant: removing an entry also empties the fallback.
clear_remove_Reset(t) ==
    /\ pc[t] = "clear_wait"
    /\ CanWrite(store_lock)
    /\ store_lock' = [store_lock EXCEPT !.w = t]
    /\ TRACE_STORE' = Remove(TRACE_STORE, api[t].session_id)
    /\ CURRENT_TRACE' = None
    /\ api' = [api EXCEPT ![t].ret =
                  IF Get(TRACE_STORE, api[t].session_id) # None THEN "removed" ELSE None]
    /\ hist' = [hist EXCEPT
                  !.done[api[t].session_id] = None,
                  !.lastKey = IF @ = api[t].session_id THEN None ELSE @]
    /\ pc' = [pc EXCEPT ![t] = "clear"]
    /\ UNCHANGED <<current_lock, req, tool, calls>>

\* Lines 44-45: take the map's write lock, remove the session's entry; ret is
\* what remove(..).is_some() found.
clear_remove(t) ==
    /\ pc[t] = "clear_wait"
    /\ CanWrite(store_lock)
    /\ store_lock' = [store_lock EXCEPT !.w = t]
    /\ TRACE_STORE' = Remove(TRACE_STORE, api[t].session_id)
    /\ api' = [api EXCEPT ![t].ret =
                  IF Get(TRACE_STORE, api[t].session_id) # None THEN "removed" ELSE None]
    /\ hist' = [hist EXCEPT
                  !.done[api[t].session_id] = None,
                  !.lastKey = IF @ = api[t].session_id THEN None ELSE @]
    /\ pc' = [pc EXCEPT ![t] = "clear"]
    /\ UNCHANGED <<CURRENT_TRACE, current_lock, req, tool, calls>>

\* Lines 46-48: the write guard is dropped.
clear_return(t) ==
    /\ pc[t] = "clear"
    /\ store_lock' = [store_lock EXCEPT !.w = None]
    /\ api' = [api EXCEPT ![t] = NoApi]
    /\ pc' = [pc EXCEPT ![t] = "idle"]
    /\ UNCHANGED <<TRACE_STORE, CURRENT_TRACE, current_lock, req, tool, hist, calls>>

----------------------------------------------------------------------------
(* Specification *)

Next ==
    \/ \E t \in Tasks, tp \in Traceparents \cup {None}, s \in Sessions : call(t, tp, s)
    \/ \E t \in Tasks, s \in Sessions : \E r \in Responses(s) : inner_respond(t, r)
    \/ \E t \in Tasks : call_return(t)
    \/ \E t \in Tasks : store_write(t)
    \/ \E t \in Tasks : current_write(t)
    \/ \E t \in Tasks : store_return(t)
    \/ \E t \in Tasks, a \in ArgValues : trace_io(t, a)
    \/ \E t \in Tasks : get_current_trace_context(t)
    \/ \E t \in Tasks : trace_io_input(t)
    \/ \E t \in Tasks : trace_io_unwind(t)
    \/ \E t \in Tasks, r \in Results : trace_io_output(t, r)
    \/ \E t \in Tasks, s \in Sessions : get_trace_context(t, s)
    \/ \E t \in Tasks : get_read(t)
    \/ \E t \in Tasks : get_return(t)
    \/ \E t \in Tasks, s \in Sessions : clear_trace_context(t, s)
    \/ \E t \in Tasks : clear_remove(t)
    \/ \E t \in Tasks : clear_return(t)

Spec == Init /\ [][Next]_vars

\* The steps a task takes by itself once its call has started.
Runs(t) ==
    \/ \E s \in Sessions : \E r \in Responses(s) : inner_respond(t, r)
    \/ \E a \in ArgValues : trace_io(t, a)
    \/ call_return(t)
    \/ store_return(t)
    \/ trace_io_input(t)
    \/ trace_io_unwind(t)
    \/ \E r \in Results : trace_io_output(t, r)
    \/ get_return(t)
    \/ clear_return(t)

\* The steps of a task that take a lock: TRACE_STORE.write(), .read(),
\* CURRENT_TRACE.write(), .read().
Waits(t) ==
    \/ store_write(t)
    \/ current_write(t)
    \/ get_current_trace_context(t)
    \/ get_read(t)
    \/ clear_remove(t)

\* The runtime polls every task that can run; a tokio RwLock serves its
\* waiters in the order they arrived, so a waiter is not passed over for ever.
Fairness ==
    \A t \in Tasks : WF_vars(Runs(t)) /\ SF_vars(Waits(t))

\* The server serves calls without end: the count of calls starts over.
serve ==
    /\ calls = MaxCalls
    /\ calls' = 0
    /\ UNCHANGED <<TRACE_STORE, CURRENT_TRACE, store_lock, current_lock, pc, req, tool, api, hist>>

\* Whether a step waits for a lock depends on the locks and on where the tasks
\* stand, not on the values stored: the unbounded runs are explored with one
\* session, requests without a traceparent header, a response that leads to
\* the write-back and one that does not, and a failing handler.
LiveSession == "s1"
LiveResponses ==
    { Response(FALSE, "BoxError", NoHeader),
      Response(TRUE, None, HeaderValue(LiveSession, TRUE)) }
LiveResults == { ErrResult("McpError") }

LiveNext ==
    \/ \E t \in Tasks : call(t, None, LiveSession)
    \/ \E t \in Tasks, r \in LiveResponses : inner_respond(t, r)
    \/ \E t \in Tasks : call_return(t)
    \/ \E t \in Tasks : store_write(t)
    \/ \E t \in Tasks : current_write(t)
    \/ \E t \in Tasks : store_return(t)
    \/ \E t \in Tasks, a \in ArgValues : trace_io(t, a)
    \/ \E t \in Tasks : get_current_trace_context(t)
    \/ \E t \in Tasks : trace_io_input(t)
    \/ \E t \in Tasks : trace_io_unwind(t)
    \/ \E t \in Tasks, r \in LiveResults : trace_io_output(t, r)
    \/ \E t \in Tasks : get_trace_context(t, LiveSession)
    \/ \E t \in Tasks : get_read(t)
    \/ \E t \in Tasks : get_return(t)
    \/ \E t \in Tasks : clear_trace_context(t, LiveSession)
    \/ \E t \in Tasks : clear_remove(t)
    \/ \E t \in Tasks : clear_return(t)
    \/ serve

SpecLive == Init /\ [][LiveNext]_vars /\ Fairness

----------------------------------------------------------------------------
(* Cancellation *)

\* The future that TracePropagationMiddleware::call returns is dropped by its
\* caller (the connection goes away) while it is pending at one of its await
\* points: inner.call(req).await, with the wrapper's CURRENT_TRACE.read().await
\* and the handler body below it, TRACE_STORE.write().await, and
\* CURRENT_TRACE.write().await.  Dropping the future drops its locals, the
\* guard on TRACE_STORE among them; what was written stays written.
cancel(t) ==
    /\ pc[t] \in {"inner", "tool_wait", "tool_body", "put_wait", "put_store"}
    /\ store_lock' = [store_lock EXCEPT !.w = IF @ = t THEN None ELSE @]
    /\ tool' = [tool EXCEPT ![t] = NoTool]
    /\ req' = [req EXCEPT ![t] = NoReq]
    /\ pc' = [pc EXCEPT ![t] = "idle"]
    /\ UNCHANGED <<TRACE_STORE, CURRENT_TRACE, current_lock, api, hist, calls>>

CancelNext ==
    \/ Next
    \/ \E t \in Tasks : cancel(t)

\* The system whose requests can be cancelled.
SpecCancel == Init /\ [][CancelNext]_vars

----------------------------------------------------------------------------
(* Observations shared by the properties *)

\* The session and context a task's store_trace_context was called with.
PutSession(t) == SessionStr(req[t].response)
PutContext(t) == req[t].parent_context

\* The task is inside store_trace_context with the map's write guard.
InPut(t) == pc[t] \in {"put_store", "put_current"}

\* The task is handling a request through the middleware.
InRequest(t) ==
    pc[t] \in {"inner", "tool_wait", "tool_ctx", "tool_body", "tool_ret", "tool_panic",
               "put_wait", "put_store", "put_current", "returned"}

\* The step hands the outcome of task t's request to the caller.
Completes(t) == pc[t] = "returned" /\ pc'[t] = "idle"

----------------------------------------------------------------------------
(* C1 *)

\* C1: session continuity.  A request B of session S carries no traceparent
\* header and arrived after a request A had completed its write-back of a
\* remote context for S.  When B's wrapper resolves its parent, with no other
\* request of S and no clear in flight, the parent it sets on the span is the
\* context get(S) returns, whatever requests of other sessions ran between.
C1_SessionContinuity ==
    [][\A t \in Tasks :
          ( /\ pc[t] = "tool_ctx" /\ pc'[t] = "tool_body"
            /\ req[t].traceparent = None
            /\ req[t].after_entry
            /\ hist.done[req[t].session] \notin {None, "root"}
            /\ \A u \in Tasks \ {t} :
                  /\ pc[u] # "clear"
                  /\ InRequest(u) => req[u].session # req[t].session )
          => tool'[t].parent = Get(TRACE_STORE, req[t].session)]_vars

----------------------------------------------------------------------------
(* C2 *)

\* C2: last write wins, one entry per session.  The map never holds two
\* entries for a session; a store_trace_context(S, C) that has inserted makes
\* get(S) = C; and with the map unlocked get(S) is the context of the last
\* store_trace_context(S, _) that returned.
C2_LastWriteWins ==
    /\ \A s \in Sessions : Cardinality({e \in TRACE_STORE : e[1] = s}) <= 1
    /\ \A t \in Tasks : InPut(t) => Get(TRACE_STORE, PutSession(t)) = PutContext(t)
    /\ store_lock.w = None =>
          \A s \in Sessions : hist.done[s] # None => Get(TRACE_STORE, s) = hist.done[s]

\* A put(S, C2) has replaced the entry an earlier, completed put(S, C1) left.
C2_Witness ==
    \E t \in Tasks :
        /\ pc[t] = "put_current"
        /\ hist.done[PutSession(t)] \notin {None, PutContext(t)}
        /\ TRACE_STORE \cap ({PutSession(t)} \X Contexts) = {<<PutSession(t), PutContext(t)>>}

----------------------------------------------------------------------------
(* C3 *)

\* C3: the fallback reflects the latest put.  Whenever no writer holds the
\* fallback slot, get_current_trace_context returns the context of the last
\* store_trace_context that returned, whatever its session.
C3_FallbackLatest ==
    current_lock.w = None => CURRENT_TRACE = hist.lastPut

\* Two sessions were written; the fallback is the context of the later put
\* and differs from the other session's entry.
C3_Witness ==
    /\ current_lock.w = None /\ store_lock.w = None
    /\ \E s1, s2 \in Sessions :
          /\ s1 # s2
          /\ Get(TRACE_STORE, s2) = CURRENT_TRACE
          /\ Get(TRACE_STORE, s1) \notin {None, CURRENT_TRACE}
          /\ hist.lastPut = CURRENT_TRACE

----------------------------------------------------------------------------
(* C4 *)

\* C4: the fallback slot holds the context extracted from the most recent
\* request the middleware answered, with or without a session header on the
\* response.
C4_FallbackTracksRequests ==
    [][\A t \in Tasks :
          (Completes(t) /\ req[t].response.ok)
          => CURRENT_TRACE' = req[t].parent_context]_vars

----------------------------------------------------------------------------
(* C5 *)

\* C5: a request of session S without a traceparent header leaves the entry
\* of S as an earlier header-carrying request stored it: when such a request,
\* arrived after that write-back, completes, get(S) is still the remote
\* context of the last write-back for S that completed before.
C5_HeaderlessKeepsEntry ==
    [][\A t \in Tasks :
          ( /\ pc[t] = "put_current" /\ pc'[t] = "returned"
            /\ req[t].traceparent = None
            /\ req[t].after_entry
            /\ hist.done[PutSession(t)] \notin {None, "root"} )
          => Get(TRACE_STORE', PutSession(t)) = hist.done[PutSession(t)]]_vars

----------------------------------------------------------------------------
(* C6 *)

\* C6: middleware write-back.  The write-back starts exactly for a successful
\* response with a well-formed mcp-session-id header and otherwise the map is
\* left alone; when the future of a request with session header S completes,
\* get(S) is the context extracted from that request's headers.
C6_WriteBack ==
    [][\A t \in Tasks :
          /\ (pc[t] \in {"inner", "tool_ret", "tool_panic"} /\ pc'[t] \in {"put_wait", "returned"})
             => /\ TRACE_STORE' = TRACE_STORE
                /\ (pc'[t] = "put_wait") <=>
                      ( /\ req'[t].response.ok
                        /\ req'[t].response.session_header.present
                        /\ req'[t].response.session_header.visible )
          /\ (pc[t] = "put_current" /\ pc'[t] = "returned")
             => Get(TRACE_STORE', req[t].response.session_header.bytes)
                  = Extract(req[t].traceparent)]_vars

\* A request with a traceparent header has completed its write-back: the
\* entry of its session is the remote context.
C6_Witness ==
    /\ store_lock.w = None
    /\ \E s \in Sessions :
          /\ hist.done[s] = "ctx-b" /\ hist.lastPut = "ctx-b"
          /\ Get(TRACE_STORE, s) = "ctx-b"

----------------------------------------------------------------------------
(* C7 *)

\* C7: wrapper result transparency.  What trace_io returns is the result of
\* the handler body, success or failure, whatever the fallback slot held.
C7_ResultTransparency ==
    \A t \in Tasks : pc[t] = "tool_ret" => tool[t].ret = tool[t].result

\* A failing handler returned through the wrapper while the fallback held the
\* context of another session.
C7_Witness ==
    \E t \in Tasks :
        /\ pc[t] = "tool_ret"
        /\ ~tool[t].result.ok /\ tool[t].ret = ErrResult("McpError")
        /\ tool[t].stored_context # None
        /\ hist.done[req[t].session] = None

----------------------------------------------------------------------------
(* C8 *)

\* C8: writers on disjoint keys.  A store_trace_context(S2, C2) that has made
\* both writes leaves get(S2) = C2 and, for every other session S1, get(S1)
\* the context of the last store_trace_context(S1, _) that returned, also
\* when that put ran while this one waited for the lock.
C8_DisjointWriters ==
    \A t \in Tasks :
        pc[t] = "put_current" =>
            /\ Get(TRACE_STORE, PutSession(t)) = PutContext(t)
            /\ \A s \in Sessions \ {PutSession(t)} : Get(TRACE_STORE, s) = hist.done[s]

\* Two puts on different sessions raced for the lock: one ran while the other
\* waited, and both entries are there.
C8_Witness ==
    \E t \in Tasks :
        /\ pc[t] = "put_current"
        /\ req[t].overtaken
        /\ \E s \in Sessions \ {PutSession(t)} :
               Get(TRACE_STORE, s) \notin {None, PutContext(t)}
        /\ Get(TRACE_STORE, PutSession(t)) = PutContext(t)

----------------------------------------------------------------------------
(* C9 *)

\* C9: a miss is explicit.  get_trace_context(S) returns None whenever no
\* store_trace_context(S, _) has returned since the start or since the last
\* clear_trace_context(S), whatever the other entries and the fallback hold.
C9_MissIsExplicit ==
    /\ \A t \in Tasks :
          (pc[t] = "get" /\ hist.done[api[t].session_id] = None) => api[t].ret = None
    /\ store_lock.w = None =>
          \A s \in Sessions : hist.done[s] = None => Get(TRACE_STORE, s) = None

\* A get missed while another session had an entry and the fallback was set.
C9_Witness ==
    \E t \in Tasks :
        /\ pc[t] = "get" /\ api[t].ret = None
        /\ CURRENT_TRACE # None
        /\ \E s \in Sessions \ {api[t].session_id} : Get(TRACE_STORE, s) # None

----------------------------------------------------------------------------
(* C10 *)

\* C10: put is atomic for readers.  No get_trace_context holds the read
\* guard while a store_trace_context or clear_trace_context is between its
\* writes, and what a get(S) returns is None or the whole context of a
\* store_trace_context(S, _) that returned.
C10_AtomicPut ==
    /\ \A t, u \in Tasks : pc[t] = "get" => ~InPut(u) /\ pc[u] # "clear"
    /\ store_lock.r # {} => store_lock.w = None
    /\ \A t \in Tasks :
          pc[t] = "get" => api[t].ret \in {None, hist.done[api[t].session_id]}

\* A get returned the stored context while a put of another context for the
\* same session was waiting for the lock.
C10_Witness ==
    \E t, u \in Tasks :
        /\ pc[t] = "get" /\ api[t].ret # None
        /\ pc[u] = "put_wait"
        /\ PutSession(u) = api[t].session_id
        /\ PutContext(u) # api[t].ret

----------------------------------------------------------------------------
(* C11 *)

\* C11: visibility ordering.  A response with a usable session header S is
\* handed back only by a store_trace_context that has returned: the entry of
\* S is the request's context and the map's write guard is released.  A
\* get_trace_context(S) that reads after that returns the context of the last
\* store_trace_context(S, _) that returned, unless a clear_trace_context(S)
\* came after it.
C11_VisibilityOrdering ==
    [][\A t \in Tasks :
          /\ ( /\ pc[t] # "returned" /\ pc'[t] = "returned"
               /\ req'[t].ret.ok /\ SessionStr(req'[t].ret) # None )
             => /\ pc[t] = "put_current"
                /\ store_lock'.w = None /\ current_lock'.w = None
                /\ Get(TRACE_STORE', SessionStr(req'[t].ret)) = req'[t].parent_context
                /\ hist'.done[SessionStr(req'[t].ret)] = req'[t].parent_context
          /\ ( /\ pc[t] = "get_wait" /\ pc'[t] = "get"
               /\ hist.done[api[t].session_id] # None )
             => api'[t].ret = hist.done[api[t].session_id]]_vars

\* A get read the context a completed request wrote for its session, after a
\* request of another session had written a different context.
C11_Witness ==
    \E t \in Tasks :
        /\ pc[t] = "get"
        /\ api[t].ret # None
        /\ api[t].ret = hist.done[api[t].session_id]
        /\ hist.lastPut \notin {None, api[t].ret}

----------------------------------------------------------------------------
(* C12 *)

\* The task holds a guard of the lock.
Holds(l, t) == l.w = t \/ t \in l.r

\* C12: no indefinite blocking.  A task takes the fallback's lock only as the
\* last one: none waits for the map's lock while it holds the fallback's, and
\* the writer of the fallback is the writer of the map.  Whenever a call is
\* under way some task with a call under way can take a step.  Under fair
\* scheduling every store_trace_context, get_trace_context,
\* clear_trace_context and get_current_trace_context that was called returns:
\* every task gets back to idle, however many calls the other tasks make.
C12_NoIndefiniteBlocking ==
    /\ [](\A t \in Tasks :
            /\ pc[t] \in {"put_wait", "get_wait", "clear_wait"} => ~Holds(current_lock, t)
            /\ current_lock.w = t => store_lock.w = t)
    /\ []((\E t \in Tasks : pc[t] # "idle")
            => \E t \in Tasks : pc[t] # "idle" /\ ENABLED (Runs(t) \/ Waits(t)))
    /\ \A t \in Tasks : (pc[t] # "idle") ~> (pc[t] = "idle")

\* A reader of the fallback waits while a store_trace_context holds both
\* write guards.
C12_Witness ==
    \E t, u \in Tasks :
        /\ pc[t] = "tool_wait" /\ ~CanRead(current_lock)
        /\ pc[u] = "put_current" /\ store_lock.w = u /\ current_lock.w = u

----------------------------------------------------------------------------
(* C13 *)

\* C13: an input that does not serialize aborts the call.  A tool call whose
\* arguments fail to serialize never gets to the handler body and never
\* returns a result: it ends in the panic of json!, with no input and no
\* output attribute on the span.
C13_InputFailureAborts ==
    \A t \in Tasks :
        /\ (tool[t].args # None /\ ~Serializes(tool[t].args))
           => /\ pc[t] \in {"tool_wait", "tool_ctx", "tool_panic"}
              /\ tool[t].input = Empty /\ tool[t].output = Empty
              /\ tool[t].result = NoResult /\ tool[t].ret = NoResult
        /\ pc[t] = "tool_panic" => ~Serializes(tool[t].args)

\* A call has panicked on its input after it had resolved a parent context.
C13_Witness ==
    \E t \in Tasks :
        /\ pc[t] = "tool_panic"
        /\ tool[t].parent # None
        /\ tool[t].output = Empty

----------------------------------------------------------------------------
(* C14 *)

\* The response carries an mcp-session-id header that is not a string.
Malformed(response) ==
    response.ok /\ response.session_header.present /\ ~response.session_header.visible

\* C14: a malformed session header degrades gracefully.  When the inner
\* service answers with an mcp-session-id header that is not a well-formed
\* string, the middleware goes straight to its return: it takes no lock, the
\* map and the fallback are as they were, and what it returns is Ok with that
\* response.
C14_MalformedHeader ==
    [][\A t \in Tasks :
          (~Malformed(req[t].response) /\ Malformed(req'[t].response))
          => /\ pc'[t] = "returned"
             /\ TRACE_STORE' = TRACE_STORE /\ CURRENT_TRACE' = CURRENT_TRACE
             /\ store_lock' = store_lock /\ current_lock' = current_lock
             /\ req'[t].ret.ok /\ req'[t].ret = req'[t].response]_vars

\* A request with a malformed session header on its response has returned Ok
\* while the entry of its session still holds another, earlier context.
C14_Witness ==
    \E t \in Tasks :
        /\ pc[t] = "returned"
        /\ Malformed(req[t].response) /\ req[t].ret.ok
        /\ store_lock.w = None
        /\ Get(TRACE_STORE, req[t].session) \notin {None, req[t].parent_context}
        /\ CURRENT_TRACE \notin {None, req[t].parent_context}

----------------------------------------------------------------------------
(* C15 *)

\* C15: the middleware returns the inner service's outcome unchanged.  When
\* the future resolves, a response of the inner service is returned as it
\* was received; an error of the inner service is returned as that error,
\* straight from the inner call, with the map and the fallback untouched.
C15_OutcomeUnchanged ==
    [][\A t \in Tasks :
          (pc[t] # "returned" /\ pc'[t] = "returned")
          => IF req'[t].response.ok
             THEN req'[t].ret = req'[t].response
             ELSE /\ ~req'[t].ret.ok
                  /\ req'[t].ret.error = req'[t].response.error
                  /\ pc[t] \in {"inner", "tool_ret", "tool_panic"}
                  /\ TRACE_STORE' = TRACE_STORE /\ CURRENT_TRACE' = CURRENT_TRACE
                  /\ store_lock' = store_lock /\ current_lock' = current_lock]_vars

\* The error of the inner service has been returned for a request with a
\* remote context, and neither the entry of its session nor the fallback
\* holds that context.
C15_Witness ==
    \E t \in Tasks :
        /\ pc[t] = "returned"
        /\ ~req[t].ret.ok /\ req[t].ret.error = "BoxError"
        /\ req[t].parent_context \in {"ctx-a", "ctx-b"}
        /\ CURRENT_TRACE \notin {None, req[t].parent_context}
        /\ Get(TRACE_STORE, req[t].session) # req[t].parent_context

----------------------------------------------------------------------------
(* C16 *)

\* C16: no fabricated output on failure.  When the handler body has returned
\* a failure, the wrapper has recorded no output attribute, and the input
\* attribute it recorded before the body ran is there.
C16_NoOutputOnFailure ==
    \A t \in Tasks :
        (pc[t] = "tool_ret" /\ ~tool[t].result.ok)
        => /\ tool[t].output = Empty
           /\ tool[t].input = ToJson(tool[t].args)

\* A handler failed under a span that has a parent and an input attribute.
C16_Witness ==
    \E t \in Tasks :
        /\ pc[t] = "tool_ret"
        /\ tool[t].result = ErrResult("McpError")
        /\ tool[t].input # Empty /\ tool[t].output = Empty
        /\ tool[t].parent # None

----------------------------------------------------------------------------
(* C17 *)

\* C17: output capture on success.  Whenever the handler body has returned
\* success, the span has its input attribute and an output attribute by the
\* time the wrapper returns.
C17_OutputOnSuccess ==
    \A t \in Tasks :
        (pc[t] = "tool_ret" /\ tool[t].result.ok)
        => /\ tool[t].input = ToJson(tool[t].args)
           /\ tool[t].output # Empty

----------------------------------------------------------------------------
(* C18 *)

\* The session ids that have an entry.
Keys(store) == {e[1] : e \in store}

\* C18: the propagation flow deletes no entry.  Every step other than the
\* removal of clear_trace_context keeps every session id that is in the map:
\* through any interleaving of requests the set of session ids only grows.
C18_NeverDeleted ==
    [][\/ Keys(TRACE_STORE) \subseteq Keys(TRACE_STORE')
       \/ \E t \in Tasks : pc[t] = "clear_wait" /\ pc'[t] = "clear"]_vars

\* A request wrote back into a map that has both sessions, replacing the
\* context of its own: both sessions are still there.
C18_Witness ==
    /\ Keys(TRACE_STORE) = Sessions
    /\ \E t \in Tasks :
          /\ pc[t] = "put_current"
          /\ hist.done[PutSession(t)] \notin {None, PutContext(t)}
          /\ \A u \in Tasks \ {t} : pc[u] = "idle"

----------------------------------------------------------------------------
(* C19 *)

\* C19: remove evicts exactly one entry.  The removal of
\* clear_trace_context(S) leaves no entry for S and every other session's
\* entry as it was; without an entry for S it changes nothing; the call then
\* returns.  An absent entry stays absent until a store_trace_context for
\* that session inserts one.
C19_RemoveOne ==
    [][/\ \A t \in Tasks :
            /\ (pc[t] = "clear_wait" /\ pc'[t] = "clear")
               => /\ Get(TRACE_STORE', api[t].session_id) = None
                  /\ \A s \in Sessions \ {api[t].session_id} :
                        Get(TRACE_STORE', s) = Get(TRACE_STORE, s)
                  /\ Get(TRACE_STORE, api[t].session_id) = None
                        => TRACE_STORE' = TRACE_STORE /\ api'[t].ret = None
            /\ (pc[t] = "clear" /\ pc'[t] # "clear")
               => /\ pc'[t] = "idle" /\ store_lock'.w = None
                  /\ TRACE_STORE' = TRACE_STORE
                  /\ Get(TRACE_STORE', api[t].session_id) = None
       /\ \A s \in Sessions :
            (Get(TRACE_STORE, s) = None /\ Get(TRACE_STORE', s) # None)
            => \E t \in Tasks :
                  pc[t] = "put_wait" /\ pc'[t] = "put_store" /\ PutSession(t) = s]_vars

\* A clear_trace_context removed the entry of its session and left the entry
\* of the other session.
C19_Witness ==
    \E t \in Tasks :
        /\ pc[t] = "clear" /\ api[t].ret = "removed"
        /\ Get(TRACE_STORE, api[t].session_id) = None
        /\ \E s \in Sessions \ {api[t].session_id} :
              Get(TRACE_STORE, s) # None /\ Get(TRACE_STORE, s) = hist.done[s]

----------------------------------------------------------------------------
(* C20 *)

\* C20: wrapper step order.  While the wrapper waits for the fallback or
\* reads it, the span has no parent from it and no attribute; once the
\* context is resolved the input is recorded, and a failure to record it
\* leaves the resolved parent and no input; the input attribute is there
\* while the body runs and nothing of its result is; an output attribute is
\* there only after the body has finished with success.
C20_WrapperOrder ==
    \A t \in Tasks :
        /\ pc[t] \in {"tool_wait", "tool_ctx"}
           => /\ tool[t].parent = None /\ tool[t].stored_context = None
              /\ tool[t].input = Empty /\ tool[t].output = Empty
        /\ tool[t].input # Empty
           => /\ pc[t] \in {"tool_body", "tool_ret"}
              /\ tool[t].parent = tool[t].stored_context
        /\ pc[t] = "tool_panic"
           => tool[t].parent = tool[t].stored_context /\ tool[t].input = Empty
        /\ pc[t] = "tool_body"
           => /\ tool[t].input = ToJson(tool[t].args)
              /\ tool[t].output = Empty /\ tool[t].result = NoResult
        /\ tool[t].output # Empty
           => pc[t] = "tool_ret" /\ tool[t].result.ok

\* A call went through all four steps: parent, input and output are set.
C20_Witness ==
    \E t \in Tasks :
        /\ pc[t] = "tool_ret"
        /\ tool[t].parent \in Contexts
        /\ tool[t].input = ToJson("London")
        /\ tool[t].output = "{weather}"

----------------------------------------------------------------------------
(* C21 *)

\* C21: middleware step order.  The step that forwards a request to the
\* inner service has set the extracted context as the parent of the
\* request's span and writes nothing.  The write-back of a request starts
\* only in the step in which the inner service hands over its response,
\* after the request's tool handler has ended; while the inner service or
\* the handler runs, the request holds no guard of the map.  The map and the
\* fallback change only in a step of store_trace_context or
\* clear_trace_context.
C21_MiddlewareOrder ==
    [][/\ \A t \in Tasks :
            /\ (pc[t] = "idle" /\ pc'[t] \in {"inner", "put_wait"})
               => /\ pc'[t] = "inner"
                  /\ req'[t].span_parent = Extract(req'[t].traceparent)
                  /\ req'[t].parent_context = req'[t].span_parent
                  /\ req'[t].response = NoResponse
            /\ (pc[t] # "put_wait" /\ pc'[t] = "put_wait")
               => /\ pc[t] \in {"inner", "tool_ret", "tool_panic"}
                  /\ req[t].response = NoResponse /\ req'[t].response.ok
                  /\ tool'[t] = NoTool
            /\ pc[t] \in {"inner", "tool_wait", "tool_ctx", "tool_body", "tool_ret", "tool_panic"}
               => /\ ~Holds(store_lock, t) /\ current_lock.w # t
                  /\ req[t].span_parent = Extract(req[t].traceparent)
       /\ (TRACE_STORE' # TRACE_STORE \/ CURRENT_TRACE' # CURRENT_TRACE)
            => \E u \in Tasks :
                  /\ pc[u] \in {"put_wait", "put_store", "clear_wait"}
                  /\ pc'[u] \in {"put_store", "put_current", "clear"}]_vars

\* The handler of a request with a remote context has run and resolved its
\* parent to another context, while the session of the request has no entry
\* yet: the write-back is still to come.
C21_Witness ==
    \E t \in Tasks :
        /\ pc[t] = "tool_ret"
        /\ req[t].span_parent = "ctx-a"
        /\ tool[t].parent \notin {None, "ctx-a"}
        /\ Get(TRACE_STORE, req[t].session) = None
        /\ req[t].response = NoResponse

----------------------------------------------------------------------------
(* C22 *)

\* C22: empty-store degradation.  When the wrapper resolves its context
\* while the fallback has never been written, it sets no parent on the span;
\* with arguments that serialize (the other case is that of C13) the handler
\* is executed and the wrapper returns exactly the handler's result.  The
\* fallback stays absent unless a request whose response carries a usable
\* session header writes it: a response without one leaves it absent.
C22_EmptyStoreDegradation ==
    [][/\ \A t \in Tasks :
            /\ (pc[t] = "tool_ctx" /\ pc'[t] # "tool_ctx" /\ CURRENT_TRACE = None)
               => /\ tool'[t].stored_context = None
                  /\ tool'[t].parent = None
                  /\ Serializes(tool[t].args) => pc'[t] = "tool_body"
            /\ (pc[t] = "tool_body" /\ pc'[t] # "tool_body" /\ tool[t].stored_context = None)
               => /\ pc'[t] = "tool_ret"
                  /\ tool'[t].parent = None
                  /\ tool'[t].result \in Results
                  /\ tool'[t].ret = tool'[t].result
            /\ (pc[t] \in {"inner", "tool_ret", "tool_panic"} /\ pc'[t] # pc[t]
                   /\ SessionStr(req'[t].response) = None)
               => /\ pc'[t] \in {"returned", "tool_wait", "idle"}
                  /\ CURRENT_TRACE' = CURRENT_TRACE
       /\ (CURRENT_TRACE = None /\ CURRENT_TRACE' # None)
            => \E u \in Tasks :
                  /\ pc[u] = "put_store" /\ pc'[u] = "put_current"
                  /\ SessionStr(req[u].response) # None]_vars

\* A request without a traceparent header has run its handler while nothing
\* was stored: the span has no parent, the handler's Ok result is what the
\* wrapper returns, and the fallback is still absent.
C22_Witness ==
    \E t \in Tasks :
        /\ pc[t] = "tool_ret"
        /\ req[t].traceparent = None
        /\ tool[t].stored_context = None /\ tool[t].parent = None
        /\ tool[t].result.ok /\ tool[t].ret = tool[t].result
        /\ CURRENT_TRACE = None /\ hist.lastPut = None

----------------------------------------------------------------------------
(* C23 *)

\* C23: store_trace_context writes both targets together, even under
\* cancellation.  In every state in which no store_trace_context is in
\* progress, the context inserted last into the map is the fallback.
C23_PutWritesBoth ==
    (\A t \in Tasks : ~InPut(t)) => CURRENT_TRACE = hist.lastInsert

----------------------------------------------------------------------------
(* C24 *)

\* C24: the map and the fallback agree on the winner of racing puts.  A
\* store_trace_context that has written the fallback still holds the map, and
\* the entry of its session and the fallback are both its context.  When no
\* store_trace_context is in progress and the session that was inserted last
\* has not been removed, the entry of that session is the fallback.
C24_SameWinner ==
    /\ \A t \in Tasks :
          pc[t] = "put_current"
          => /\ store_lock.w = t
             /\ hist.lastKey = PutSession(t)
             /\ Get(TRACE_STORE, PutSession(t)) = PutContext(t)
             /\ CURRENT_TRACE = PutContext(t)
    /\ ((\A t \in Tasks : ~InPut(t)) /\ hist.lastKey # None)
       => /\ CURRENT_TRACE # None
          /\ Get(TRACE_STORE, hist.lastKey) = CURRENT_TRACE

\* Two requests of one session with different contexts were in flight
\* together and both have written back: the entry of the session and the
\* fallback are the same one of the two contexts.
C24_Witness ==
    \E t, u \in Tasks :
        /\ t # u
        /\ pc[t] = "returned" /\ pc[u] = "returned"
        /\ PutSession(t) = "s1" /\ PutSession(u) = "s1"
        /\ PutContext(t) = "ctx-a" /\ PutContext(u) = "ctx-b"
        /\ hist.lastKey = "s1"
        /\ Get(TRACE_STORE, "s1") = CURRENT_TRACE
        /\ CURRENT_TRACE = "ctx-a"

----------------------------------------------------------------------------
(* C25 *)

\* C25: clear_trace_context leaves the fallback unchanged.  No step of
\* clear_trace_context changes CURRENT_TRACE or its lock; the step that
\* removes the entry of a session whose context is the fallback leaves the
\* session without an entry and the fallback with that context.
C25_RemoveKeepsFallback ==
    [][\A t \in Tasks :
          (pc'[t] # pc[t] /\ (pc[t] \in {"clear_wait", "clear"} \/ pc'[t] = "clear_wait"))
          => /\ CURRENT_TRACE' = CURRENT_TRACE
             /\ current_lock' = current_lock
             /\ pc'[t] = "clear"
                => /\ Get(TRACE_STORE', api[t].session_id) = None
                   /\ \A s \in Sessions \ {api[t].session_id} :
                         Get(TRACE_STORE', s) = Get(TRACE_STORE, s)]_vars

\* The only session was stored and then removed; a later tool invocation has
\* resolved its parent to the context of the removed session.
C25_Witness ==
    \E t \in Tasks :
        /\ pc[t] = "tool_body"
        /\ TRACE_STORE = {}
        /\ hist.lastInsert = "ctx-a" /\ hist.lastKey = None
        /\ CURRENT_TRACE = "ctx-a"
        /\ tool[t].parent = "ctx-a"
        /\ req[t].span_parent # "ctx-a"

----------------------------------------------------------------------------
(* C26 *)

\* C26: the presence of the fallback is monotone and implied by any map hit.
\* The fallback is absent only while no store_trace_context has written it:
\* then none has returned, and the step that makes it present is the
\* fallback write of a store_trace_context.  Once present it is present after
\* every step.  When get_trace_context finds a context, the fallback is
\* present, hence present for every later get_current_trace_context.
C26_FallbackMonotone ==
    [][/\ CURRENT_TRACE # None => CURRENT_TRACE' # None
       /\ CURRENT_TRACE = None => hist.lastPut = None
       /\ CURRENT_TRACE' = None => hist'.lastPut = None
       /\ (CURRENT_TRACE = None /\ CURRENT_TRACE' # None)
            => \E u \in Tasks : pc[u] = "put_store" /\ pc'[u] = "put_current"
       /\ \A t \in Tasks :
            (pc[t] = "get_wait" /\ pc'[t] = "get" /\ api'[t].ret # None)
            => CURRENT_TRACE # None /\ CURRENT_TRACE' # None]_vars

\* get_trace_context has found the context of a session while the fallback
\* holds the context of a later put to another session.
C26_Witness ==
    \E t \in Tasks :
        /\ pc[t] = "get"
        /\ api[t].ret \notin {None, CURRENT_TRACE}
        /\ CURRENT_TRACE # None
        /\ hist.lastKey \notin {None, api[t].session_id}

====
